---- MODULE Spec2Model ----
(***************************************************************************)
(* Model of the Go package spectrum (src/spectrum.go, src/operation.go):   *)
(* a Spectrum holds a declared length, a pointer to a big.Int and a        *)
(* pointer to a private rand.Rand.  The heap of big.Int cells is explicit, *)
(* so that sharing of a bitVector between two Spectrums is expressible.    *)
(*                                                                         *)
(* Scaling.  big.Int values are TLA+ integers (sign included).  The width  *)
(* of uint64 is Uint64Bits and the width of uint/int is UintBits: both are *)
(* 64 in a 64-bit build and are scaled down here; UintBits >= Uint64Bits,  *)
(* so the conversion uint(x) of a uint64 loses nothing, as in that build.  *)
(*                                                                         *)
(* math/rand.  A seeded generator is modelled by the periodic stream of     *)
(* values it is going to produce; Intn(n) consumes the head of the stream. *)
(* A seed determines the stream, so seeds are identified with the streams  *)
(* they produce.  A generator seeded with time.Now().UnixNano() has an     *)
(* unknown stream: each of its draws is an arbitrary value.                *)
(***************************************************************************)
EXTENDS Integers, Sequences, FiniteSets, TLC

VARIABLES ent, heap, pc, ret, hist

vars == <<ent, heap, pc, ret, hist>>

\* ------------------------------------------------------------- bounds
\* Largest declared length where the client holds two Spectrums (Spec).
MaxLen == 2
\* Largest declared length otherwise.
BigLen == 3
\* Width of uint64 (scaled).
Uint64Bits == 2
\* Width of uint and int (scaled).
UintBits == 3
\* Longest text handed to SetString.
MaxStrLen == 3
\* Longest sequence of randomized operations recorded after a Seed.
MaxOps == 2

\* ------------------------------------------------------------- math/big
RECURSIVE Pow2(_)
Pow2(n) == IF n <= 0 THEN 1 ELSE 2 * Pow2(n - 1)

Abs(x) == IF x < 0 THEN -x ELSE x

RECURSIVE NatLen(_)
NatLen(m) == IF m = 0 THEN 0 ELSE 1 + NatLen(m \div 2)

\* big.Int.BitLen: the length of the absolute value of x in bits.
BitLen(x) == NatLen(Abs(x))

RECURSIVE NatOnes(_)
NatOnes(m) == IF m = 0 THEN 0 ELSE (m % 2) + NatOnes(m \div 2)

\* big.Int.Bit: bit i of x in two's complement.
Bit(x, i) == (x \div Pow2(i)) % 2

\* big.Int.SetBit: x with bit i set to b, in two's complement.
SetBit(x, i, b) == x + (b - Bit(x, i)) * Pow2(i)

\* big.Int.Or, in two's complement.
RECURSIVE BigOr(_, _)
BigOr(a, b) ==
    IF a = 0 THEN b
    ELSE IF b = 0 THEN a
    ELSE IF a = -1 \/ b = -1 THEN -1
    ELSE 2 * BigOr(a \div 2, b \div 2) + (IF a % 2 = 1 \/ b % 2 = 1 THEN 1 ELSE 0)

\* big.Int.IsUint64
BigIsUint64(x) == 0 <= x /\ x < Pow2(Uint64Bits)

\* The values of type uint64.
Uint64Values == 0 .. (Pow2(Uint64Bits) - 1)

\* The values of type uint.
UintValues == 0 .. (Pow2(UintBits) - 1)

\* The conversion uint(x) of a uint64.
ToUint(x) == x % Pow2(UintBits)

\* The conversion int(n) of a uint: the same bits, read as signed.
ToInt(n) == IF n >= Pow2(UintBits - 1) THEN n - Pow2(UintBits) ELSE n

\* ------------------------------------------------------------- text
\* A text is a sequence of one-character strings.
Digits == <<"0", "1", "2", "3", "4", "5", "6", "7", "8", "9", "a", "b", "c", "d", "e", "f">>

DigitVal(ch) ==
    IF \E k \in 1..Len(Digits) : Digits[k] = ch
    THEN (CHOOSE k \in 1..Len(Digits) : Digits[k] = ch) - 1
    ELSE 99

RECURSIVE ScanDigits(_, _, _)
\* The digits of str, most significant first, read in the base, after acc;
\* -1 if a character is no digit of the base.
ScanDigits(str, base, acc) ==
    IF str = <<>> THEN acc
    ELSE IF DigitVal(Head(str)) >= base THEN -1
    ELSE ScanDigits(Tail(str), base, acc * base + DigitVal(Head(str)))

\* big.Int.SetString(str, base) for a base in 2..16: an optional sign, then
\* one or more digits of the base, and nothing else.
BigSetString(str, base) ==
    LET neg == str # <<>> /\ Head(str) = "-"
        body == IF str # <<>> /\ Head(str) \in {"-", "+"} THEN Tail(str) ELSE str
        mag == IF body = <<>> THEN -1 ELSE ScanDigits(body, base, 0)
    IN  IF mag < 0 THEN [ok |-> FALSE, val |-> 0]
        ELSE [ok |-> TRUE, val |-> IF neg THEN -mag ELSE mag]

RECURSIVE NatText(_, _)
NatText(m, base) ==
    IF m < base THEN <<Digits[m + 1]>>
    ELSE NatText(m \div base, base) \o <<Digits[(m % base) + 1]>>

\* big.Int.Text(base) for a base in 2..16.
BigText(x, base) == IF x < 0 THEN <<"-">> \o NatText(-x, base) ELSE NatText(x, base)

\* The text of n copies of ch.
Repeat(ch, n) == [k \in 1..(IF n < 0 THEN 0 ELSE n) |-> ch]

\* fmt.Sprintf("%0*s", width, str): str with zeros in front up to the width;
\* a negative width asks for the width -width with str on the left, and
\* then the padding is of spaces.  A str longer than the width is kept whole.
SprintfZeroPad(width, str) ==
    IF width < 0
    THEN str \o Repeat(" ", (0 - width) - Len(str))
    ELSE Repeat("0", width - Len(str)) \o str

\* ------------------------------------------------------------- math/rand
\* The streams of the seeds: every index below BigLen keeps coming back
\* (the period is BigLen), in any order.
Streams ==
    {w \in [1..BigLen -> 0..(BigLen - 1)] :
        \A i \in 0..(BigLen - 1) : \E k \in 1..BigLen : w[k] = i}

\* rand.NewSource(time.Now().UnixNano()): the stream is not known.
Unseeded == <<>>

\* rand.Rand.Intn(n) for n > 0: the values the next draw can give.
RandIntn(rnd, n) == IF rnd = Unseeded THEN 0..(n - 1) ELSE {Head(rnd) % n}

\* The generator after one value has been drawn.
RandAdvance(rnd) == IF rnd = Unseeded THEN Unseeded ELSE Tail(rnd) \o <<Head(rnd)>>

\* rand.Rand.Seed(seed): the generator restarts the stream of the seed.
RandSeed(seed) == seed

\* ------------------------------------------------------------- Spectrum
\* The client's variables: s (a Spectrum built by NewSpectrum), c (a second
\* Spectrum: a copy of s, or one built by NewSpectrum) and r (the result of
\* Rsh, Lsh or Merge).
Names == {"s", "c", "r"}

Addrs == {1, 2, 3, 4}

\* No Spectrum (a nil pointer).
NilEnt == [bitVector |-> 0, length |-> 0, rnd |-> Unseeded]

\* The address of a newly allocated big.Int.
Fresh(h) == CHOOSE a \in Addrs \ DOMAIN h : \A b \in Addrs \ DOMAIN h : a <= b

\* The heap after garbage collection: the cells the Spectrums of en hold.
Collect(h, en) == [a \in {en[e].bitVector : e \in Names} \cap DOMAIN h |-> h[a]]

ErrNone == ""
ErrTooBig == "Error: bitVector is too big for length of Spectrum."
ErrConvert == "Error: Failed to convert string."

NewSpectrum(h, length) ==
    LET a == Fresh(h)
    IN  [obj |-> [bitVector |-> a, length |-> ToInt(length), rnd |-> Unseeded],
         heap |-> (a :> 0) @@ h]

\* Spectrum.Len (Len is the length of a sequence here).
LenOf(s) == s.length

OnesCount(h, s) == NatOnes(Abs(h[s.bitVector]))

\* Set with the write made before the check.
SetWritesFirst(h, s, x) ==
    [heap |-> [h EXCEPT ![s.bitVector] = x],
     err |-> IF s.length < BitLen(x) THEN ErrTooBig ELSE ErrNone]

\* Set refusing a value of exactly length bits.
SetStrict(h, s, x) ==
    IF s.length <= BitLen(x)
    THEN [heap |-> h, err |-> ErrTooBig]
    ELSE [heap |-> [h EXCEPT ![s.bitVector] = x], err |-> ErrNone]

Set(h, s, x) ==
    IF s.length < BitLen(x)
    THEN [heap |-> h, err |-> ErrTooBig]
    ELSE [heap |-> [h EXCEPT ![s.bitVector] = x], err |-> ErrNone]

Copy(h, s) ==
    LET ns == NewSpectrum(h, ToUint(s.length))
    IN  [obj |-> ns.obj, heap |-> Set(ns.heap, ns.obj, h[s.bitVector]).heap]

SetUint64(h, s, x) ==
    IF s.length < BitLen(ToUint(x))
    THEN [heap |-> h, err |-> ErrTooBig]
    ELSE [heap |-> [h EXCEPT ![s.bitVector] = x], err |-> ErrNone]

SetString(h, s, str, base) ==
    LET v == BigSetString(str, base)
    IN  IF ~v.ok THEN [heap |-> h, err |-> ErrConvert] ELSE Set(h, s, v.val)

\* Seed leaving the generator as it is.
SeedIgnored(s, seed) == s

Seed(s, seed) == [s EXCEPT !.rnd = RandSeed(seed)]

IsUint64(h, s) == BigIsUint64(h[s.bitVector])

\* Uint64 returns a number and no error.  big.Int.Uint64 is undefined when
\* the value is no uint64: any uint64 may come back.
Uint64(h, s) ==
    [vals |-> IF BigIsUint64(h[s.bitVector]) THEN {h[s.bitVector]} ELSE Uint64Values,
     err |-> ErrNone]

BigInt(h, s) == h[s.bitVector]

\* AdjustOnesCount up to the head of its loop: the locals set and oc, and
\* the heap after the pre-fill.
AdjustEnter(h, s, n) ==
    LET h1 == IF (s.length \div 2) < n
              THEN [h EXCEPT ![s.bitVector] = Pow2(s.length) - 1]
              ELSE h
        oc == OnesCount(h1, s)
    IN  [heap |-> h1, oc |-> oc, set |-> IF n < oc THEN 0 ELSE 1]

\* The iteration with oc counted before the bit is written.
AdjustIterStale(h, s, set, i) ==
    LET h1 == [h EXCEPT ![s.bitVector] = SetBit(h[s.bitVector], i, set)]
    IN  [heap |-> h1, obj |-> [s EXCEPT !.rnd = RandAdvance(s.rnd)], oc |-> OnesCount(h, s)]

\* Spectrum.Bit (Bit is big.Int.Bit here).
SpectrumBit(h, s) == <<"0", "b">> \o SprintfZeroPad(s.length, BigText(h[s.bitVector], 2))

\* Spectrum.Text
Text(h, s, base) == BigText(h[s.bitVector], base)

\* Spectrum.Hex
Hex(h, s) ==
    LET l0 == s.length \div 4
        l == IF 0 < s.length % 4 THEN l0 + 1 ELSE l0
    IN  <<"0", "x">> \o SprintfZeroPad(l, BigText(h[s.bitVector], 16))

\* One iteration of the loop of AdjustOnesCount, Intn having given i.
AdjustIter(h, s, set, i) ==
    LET h1 == [h EXCEPT ![s.bitVector] = SetBit(h[s.bitVector], i, set)]
    IN  [heap |-> h1, obj |-> [s EXCEPT !.rnd = RandAdvance(s.rnd)], oc |-> OnesCount(h1, s)]

\* The loop of AdjustOnesCount run to its end from the value v with an
\* unseeded generator: the values it can return with.  Iterations that
\* change nothing are left out.
RECURSIVE AdjustFinals(_, _, _, _)
AdjustFinals(v, length, n, set) ==
    IF NatOnes(Abs(v)) = n THEN {v}
    ELSE UNION {AdjustFinals(SetBit(v, i, set), length, n, set) :
                   i \in {j \in 0..(length - 1) : SetBit(v, j, set) # v}}

\* The same loop: can it reach a value, not of n ones, that no iteration
\* changes?  From there it runs forever (it panics if length is 0).
RECURSIVE AdjustStuck(_, _, _, _)
AdjustStuck(v, length, n, set) ==
    /\ NatOnes(Abs(v)) # n
    /\ \/ \A j \in 0..(length - 1) : SetBit(v, j, set) = v
       \/ \E j \in 0..(length - 1) :
             SetBit(v, j, set) # v /\ AdjustStuck(SetBit(v, j, set), length, n, set)

\* ------------------------------------------------------------- operation.go
RECURSIVE RshLoop(_, _, _)
\* The loop of Rsh: k iterations on b.
RshLoop(b, length, k) ==
    IF k <= 0 THEN b
    ELSE RshLoop((IF b % 2 = 1 THEN SetBit(b, length, 1) ELSE b) \div 2, length, k - 1)

RECURSIVE LshLoop(_, _, _)
\* The loop of Lsh: k iterations on b.
LshLoop(b, length, k) ==
    IF k <= 0 THEN b
    ELSE LshLoop(IF length < BitLen(2 * b)
                 THEN SetBit(SetBit(2 * b, length, 0), 0, 1)
                 ELSE 2 * b,
                 length, k - 1)

\* Rsh(s, n): the new Spectrum sh and the heap holding it.
Rsh(h, s, n) ==
    LET b == RshLoop(BigInt(h, s), LenOf(s), ToInt(n))
        sh == Copy(h, s)
    IN  [obj |-> sh.obj, heap |-> Set(sh.heap, sh.obj, b).heap]

\* Lsh(s, n): the new Spectrum sh and the heap holding it.
Lsh(h, s, n) ==
    LET b == LshLoop(BigInt(h, s), LenOf(s), ToInt(n))
        sh == Copy(h, s)
    IN  [obj |-> sh.obj, heap |-> Set(sh.heap, sh.obj, b).heap]

\* Merge(x, y): the new Spectrum, the heap holding it, and the error.
Merge(h, x, y) ==
    LET l == ToUint(LenOf(x) + LenOf(y))
        b == BigOr(BigInt(h, x) * Pow2(ToUint(LenOf(y))), BigInt(h, y))
        ns == NewSpectrum(h, l)
    IN  [obj |-> ns.obj, heap |-> Set(ns.heap, ns.obj, b).heap, err |-> ErrNone]

\* ------------------------------------------------------------- the client
\* The program is single-threaded: pc is Idle between calls, a frame of
\* AdjustOnesCount (receiver e, target n, locals set and oc) while its loop
\* runs, Panicked after a run-time panic, and Spinning when a call made on a
\* temporary copy never returns.
Idle == [op |-> "idle", e |-> "", n |-> 0, set |-> 0, oc |-> 0]

Panicked == [Idle EXCEPT !.op = "panic"]

Spinning == [Idle EXCEPT !.op = "spin"]

\* What the last call returned (err, val), with the operation and its
\* receiver e.
Ret(op, e, err, val) == [op |-> op, e |-> e, err |-> err, val |-> val, txt |-> <<>>]

\* What a call returning a text has returned.
RetText(op, e, txt) == [Ret(op, e, ErrNone, 0) EXCEPT !.txt = txt]

NoRet == Ret("", "", ErrNone, 0)

\* The operations recorded since the last Seed of s and of c (off: nothing
\* is recorded).
HistOff == [on |-> FALSE, s |-> <<>>, c |-> <<>>]

HistOn == [HistOff EXCEPT !.on = TRUE]

Entry(op, x, v, val) == [op |-> op, x |-> x, v |-> v, val |-> val]

\* hist after the operation op(x) on e left the value v and returned val.
Log(e, op, x, v, val) ==
    IF hist.on /\ e \in {"s", "c"} /\ hist[e] # <<>>
    THEN [hist EXCEPT ![e] = Append(@, Entry(op, x, v, val))]
    ELSE hist

Exists(e) == ent[e] # NilEnt

Val(e) == heap[ent[e].bitVector]

\* c = NewSpectrum(length)
NewOp(length) ==
    /\ pc = Idle
    /\ LET en == [ent EXCEPT !["c"] = NilEnt]
           ns == NewSpectrum(Collect(heap, en), length)
       IN  /\ ent' = [en EXCEPT !["c"] = ns.obj]
           /\ heap' = ns.heap
    /\ ret' = Ret("NewSpectrum", "c", ErrNone, 0)
    /\ UNCHANGED <<pc, hist>>

\* c = s.Copy()
CopyOp ==
    /\ pc = Idle
    /\ LET en == [ent EXCEPT !["c"] = NilEnt]
           ns == Copy(Collect(heap, en), ent["s"])
       IN  /\ ent' = [en EXCEPT !["c"] = ns.obj]
           /\ heap' = ns.heap
    /\ ret' = Ret("Copy", "s", ErrNone, 0)
    /\ hist' = IF hist.on THEN [hist EXCEPT !["c"] = <<>>] ELSE hist
    /\ UNCHANGED pc

\* e.Set(x)
SetOp(e, x) ==
    /\ pc = Idle
    /\ Exists(e)
    /\ LET r == Set(heap, ent[e], x)
       IN  /\ heap' = r.heap
           /\ ret' = Ret("Set", e, r.err, 0)
           /\ hist' = Log(e, "Set", x, r.heap[ent[e].bitVector], 0)
    /\ UNCHANGED <<ent, pc>>

\* e.SetUint64(x)
SetUint64Op(e, x) ==
    /\ pc = Idle
    /\ Exists(e)
    /\ LET r == SetUint64(heap, ent[e], x)
       IN  /\ heap' = r.heap
           /\ ret' = Ret("SetUint64", e, r.err, 0)
           /\ hist' = Log(e, "SetUint64", x, r.heap[ent[e].bitVector], 0)
    /\ UNCHANGED <<ent, pc>>

\* e.SetString(str, base)
SetStringOp(e, str, base) ==
    /\ pc = Idle
    /\ Exists(e)
    /\ LET r == SetString(heap, ent[e], str, base)
       IN  /\ heap' = r.heap
           /\ ret' = Ret("SetString", e, r.err, 0)
           /\ hist' = Log(e, "SetString", <<str, base>>, r.heap[ent[e].bitVector], 0)
    /\ UNCHANGED <<ent, pc>>

\* e.Seed(seed)
SeedOp(e, seed) ==
    /\ pc = Idle
    /\ Exists(e)
    /\ ent' = [ent EXCEPT ![e] = Seed(@, seed)]
    /\ ret' = Ret("Seed", e, ErrNone, 0)
    /\ hist' = IF hist.on
               THEN [hist EXCEPT ![e] = <<Entry("Seed", seed, Val(e), ent[e].length)>>]
               ELSE hist
    /\ UNCHANGED <<heap, pc>>

\* e.Uint64()
Uint64Op(e) ==
    /\ pc = Idle
    /\ Exists(e)
    /\ \E v \in Uint64(heap, ent[e]).vals :
          ret' = Ret("Uint64", e, Uint64(heap, ent[e]).err, v)
    /\ UNCHANGED <<ent, heap, pc, hist>>

\* e.BigInt()
BigIntOp(e) ==
    /\ pc = Idle
    /\ Exists(e)
    /\ ret' = Ret("BigInt", e, ErrNone, BigInt(heap, ent[e]))
    /\ UNCHANGED <<ent, heap, pc, hist>>

\* e.Bit()
BitOp(e) ==
    /\ pc = Idle
    /\ Exists(e)
    /\ ret' = RetText("Bit", e, SpectrumBit(heap, ent[e]))
    /\ UNCHANGED <<ent, heap, pc, hist>>

\* e.Hex()
HexOp(e) ==
    /\ pc = Idle
    /\ Exists(e)
    /\ ret' = RetText("Hex", e, Hex(heap, ent[e]))
    /\ UNCHANGED <<ent, heap, pc, hist>>

\* e.Text(base)
TextOp(e, base) ==
    /\ pc = Idle
    /\ Exists(e)
    /\ ret' = RetText("Text", e, Text(heap, ent[e], base))
    /\ UNCHANGED <<ent, heap, pc, hist>>

\* e.AdjustOnesCount(n), up to the head of the loop
AdjustCall(e, n) ==
    /\ pc = Idle
    /\ Exists(e)
    /\ LET a == AdjustEnter(heap, ent[e], n)
       IN  /\ heap' = a.heap
           /\ pc' = [op |-> "AdjustOnesCount", e |-> e, n |-> n, set |-> a.set, oc |-> a.oc]
    /\ ret' = NoRet
    /\ UNCHANGED <<ent, hist>>

\* for oc != n { ... }: the iteration in which Intn gives i; Intn(0) panics
AdjustStepOn(i) ==
    /\ pc.op = "AdjustOnesCount"
    /\ pc.oc # pc.n
    /\ IF ent[pc.e].length <= 0
       THEN /\ i = 0
            /\ pc' = Panicked
            /\ UNCHANGED <<ent, heap>>
       ELSE /\ i \in RandIntn(ent[pc.e].rnd, ent[pc.e].length)
            /\ LET a == AdjustIter(heap, ent[pc.e], pc.set, i)
               IN  /\ heap' = a.heap
                   /\ ent' = [ent EXCEPT ![pc.e] = a.obj]
                   /\ pc' = [pc EXCEPT !.oc = a.oc]
    /\ UNCHANGED <<ret, hist>>

AdjustStep == \E i \in 0..(BigLen - 1) : AdjustStepOn(i)

\* oc == n: AdjustOnesCount returns s
AdjustReturn ==
    /\ pc.op = "AdjustOnesCount"
    /\ pc.oc = pc.n
    /\ pc' = Idle
    /\ ret' = Ret("AdjustOnesCount", pc.e, ErrNone, 0)
    /\ hist' = Log(pc.e, "AdjustOnesCount", pc.n, Val(pc.e), 0)
    /\ UNCHANGED <<ent, heap>>

\* The call e.Copy().AdjustOnesCount(n) inside Uint64n and BigIntn, the copy
\* having a generator of its own, seeded with the time: the copy t, and the
\* heaps it can return with.
CopyAdjust(h, s, n) ==
    LET t == Copy(h, s)
        a == AdjustEnter(t.heap, t.obj, n)
        v == a.heap[t.obj.bitVector]
    IN  [obj |-> t.obj,
         heaps |-> {[a.heap EXCEPT ![t.obj.bitVector] = f] :
                      f \in AdjustFinals(v, t.obj.length, n, a.set)},
         stuck |-> AdjustStuck(v, t.obj.length, n, a.set)]

\* e.Uint64n(n)
Uint64nOp(e, n) ==
    /\ pc = Idle
    /\ Exists(e)
    /\ LET ca == CopyAdjust(heap, ent[e], n)
       IN  \/ \E h \in ca.heaps : \E v \in Uint64(h, ca.obj).vals :
                 /\ ret' = Ret("Uint64n", e, Uint64(h, ca.obj).err, v)
                 /\ hist' = Log(e, "Uint64n", n, h[ent[e].bitVector], v)
                 /\ heap' = Collect(h, ent)
                 /\ pc' = Idle
           \/ /\ ca.stuck
              /\ pc' = IF ent[e].length <= 0 THEN Panicked ELSE Spinning
              /\ ret' = NoRet
              /\ UNCHANGED <<heap, hist>>
    /\ UNCHANGED ent

\* e.BigIntn(n)
BigIntnOp(e, n) ==
    /\ pc = Idle
    /\ Exists(e)
    /\ LET ca == CopyAdjust(heap, ent[e], n)
       IN  \/ \E h \in ca.heaps :
                 /\ ret' = Ret("BigIntn", e, ErrNone, BigInt(h, ca.obj))
                 /\ hist' = Log(e, "BigIntn", n, h[ent[e].bitVector], BigInt(h, ca.obj))
                 /\ heap' = Collect(h, ent)
                 /\ pc' = Idle
           \/ /\ ca.stuck
              /\ pc' = IF ent[e].length <= 0 THEN Panicked ELSE Spinning
              /\ ret' = NoRet
              /\ UNCHANGED <<heap, hist>>
    /\ UNCHANGED ent

\* r = Rsh(s, n)
RshOp(n) ==
    /\ pc = Idle
    /\ LET en == [ent EXCEPT !["r"] = NilEnt]
           sh == Rsh(Collect(heap, en), ent["s"], n)
       IN  /\ ent' = [en EXCEPT !["r"] = sh.obj]
           /\ heap' = sh.heap
    /\ ret' = Ret("Rsh", "s", ErrNone, n)
    /\ UNCHANGED <<pc, hist>>

\* r = Lsh(s, n)
LshOp(n) ==
    /\ pc = Idle
    /\ LET en == [ent EXCEPT !["r"] = NilEnt]
           sh == Lsh(Collect(heap, en), ent["s"], n)
       IN  /\ ent' = [en EXCEPT !["r"] = sh.obj]
           /\ heap' = sh.heap
    /\ ret' = Ret("Lsh", "s", ErrNone, n)
    /\ UNCHANGED <<pc, hist>>

\* r, err = Merge(s, c)
MergeOp ==
    /\ pc = Idle
    /\ Exists("c")
    /\ LET en == [ent EXCEPT !["r"] = NilEnt]
           m == Merge(Collect(heap, en), ent["s"], ent["c"])
       IN  /\ ent' = [en EXCEPT !["r"] = m.obj]
           /\ heap' = m.heap
           /\ ret' = Ret("Merge", "s", m.err, 0)
    /\ UNCHANGED <<pc, hist>>

\* r goes out of scope
DropOp ==
    /\ pc = Idle
    /\ Exists("r")
    /\ ent' = [ent EXCEPT !["r"] = NilEnt]
    /\ heap' = Collect(heap, ent')
    /\ ret' = NoRet
    /\ UNCHANGED <<pc, hist>>

\* ------------------------------------------------------------- inputs
\* s = NewSpectrum(length); nothing else exists.
InitLen(length) ==
    LET ns == NewSpectrum(<<>>, length)
    IN  /\ ent = [e \in Names |-> IF e = "s" THEN ns.obj ELSE NilEnt]
        /\ heap = ns.heap
        /\ pc = Idle
        /\ ret = NoRet

\* The candidates of Set for a length up to m: every integer of at most
\* m + 1 bits.
Candidates(m) == (0 - Pow2(m)) .. Pow2(m)

\* The targets of AdjustOnesCount for a length up to m: up to m + 1.
Targets(m) == 0 .. (m + 1)

\* A few texts: a number, a signed number, a number of four bits, a text
\* with no digit of base 2, a text with no digit at all.
SomeTexts == {<<"1">>, <<"-", "1">>, <<"1", "0", "0", "0">>, <<"9">>, <<"-">>}

\* One seed.
SomeSeed == [k \in 1..BigLen |-> k - 1]

\* ------------------------------------------------------------- Spec
\* Two Spectrums, s and its copy c, under every operation of spectrum.go.
Init ==
    /\ \E length \in 0..MaxLen : InitLen(length)
    /\ hist = HistOff

Next ==
    \/ CopyOp
    \/ \E e \in {"s", "c"}, x \in Candidates(MaxLen) : SetOp(e, x)
    \/ \E e \in {"s", "c"}, x \in Uint64Values : SetUint64Op(e, x)
    \/ \E e \in {"s", "c"}, str \in SomeTexts : SetStringOp(e, str, 2)
    \/ \E e \in {"s", "c"} : SeedOp(e, SomeSeed)
    \/ \E e \in {"s", "c"} : Uint64Op(e)
    \/ \E e \in {"s", "c"} : BigIntOp(e)
    \/ \E e \in {"s", "c"}, n \in Targets(MaxLen) : AdjustCall(e, n)
    \/ AdjustStep
    \/ AdjustReturn
    \/ \E e \in {"s", "c"}, n \in Targets(MaxLen) : Uint64nOp(e, n)
    \/ \E e \in {"s", "c"}, n \in Targets(MaxLen) : BigIntnOp(e, n)

Spec == Init /\ [][Next]_vars

\* ------------------------------------------------------------- SpecOne
\* One Spectrum under the setters and the extractions, with every text of
\* up to MaxStrLen characters.
Bases == {2, 10}

Alphabet == {"-", "+", "0", "1", "5", "9"}

Texts ==
    UNION {[1..k -> Alphabet] : k \in 0..MaxStrLen}
      \cup {BigText(x, base) : x \in Candidates(BigLen), base \in Bases}

InitOne ==
    /\ \E length \in 0..BigLen : InitLen(length)
    /\ hist = HistOff

NextOne ==
    \/ \E x \in Candidates(BigLen) : SetOp("s", x)
    \/ \E x \in Uint64Values : SetUint64Op("s", x)
    \/ \E str \in Texts, base \in Bases : SetStringOp("s", str, base)
    \/ Uint64Op("s")
    \/ BigIntOp("s")
    \/ \E n \in Targets(BigLen) : Uint64nOp("s", n)

SpecOne == InitOne /\ [][NextOne]_vars

\* ------------------------------------------------------------- SpecSet
\* One Spectrum and its setters, SetString being given the texts of the
\* candidates in each base.
NextSet ==
    \/ \E x \in Candidates(BigLen) : SetOp("s", x)
    \/ \E x \in Uint64Values : SetUint64Op("s", x)
    \/ \E x \in Candidates(BigLen), base \in Bases : SetStringOp("s", BigText(x, base), base)
    \/ BigIntOp("s")

SpecSet == InitOne /\ [][NextSet]_vars

\* ------------------------------------------------------------- SpecText
\* The lengths that NewSpectrum stores as they are given: those of int.
IntLengths == 0 .. (Pow2(UintBits - 1) - 1)

InitText ==
    /\ \E length \in IntLengths : InitLen(length)
    /\ hist = HistOff

\* One Spectrum of any such length, set and rendered.
NextText ==
    \/ \E x \in Candidates(Pow2(UintBits - 1) - 1) : SetOp("s", x)
    \/ BitOp("s")
    \/ HexOp("s")
    \/ \E base \in {2, 16} : TextOp("s", base)

SpecText == InitText /\ [][NextText]_vars

\* ------------------------------------------------------------- FairSpec
\* One Spectrum under AdjustOnesCount, from every value and generator; the
\* loop keeps running, and every index Intn can give is given again and
\* again.
NextAdjust ==
    \/ \E x \in Candidates(BigLen) : SetOp("s", x)
    \/ \E seed \in Streams : SeedOp("s", seed)
    \/ \E n \in Targets(BigLen) : AdjustCall("s", n)
    \/ AdjustStep
    \/ AdjustReturn

FairSpec ==
    /\ InitOne
    /\ [][NextAdjust]_vars
    /\ \A i \in 0..(BigLen - 1) : SF_vars(AdjustStepOn(i))
    /\ WF_vars(AdjustReturn)

\* ------------------------------------------------------------- SpecOps
\* Two Spectrums of any two lengths under Rsh, Lsh and Merge.
NextOps ==
    \/ \E length \in 0..BigLen : ~Exists("r") /\ NewOp(length)
    \/ \E e \in {"s", "c"}, x \in Candidates(BigLen) : ~Exists("r") /\ SetOp(e, x)
    \/ \E n \in UintValues : ~Exists("r") /\ RshOp(n)
    \/ \E n \in UintValues : ~Exists("r") /\ LshOp(n)
    \/ ~Exists("r") /\ MergeOp
    \/ DropOp

SpecOps == InitOne /\ [][NextOps]_vars

\* ------------------------------------------------------------- SpecSeed
\* s and its copy c, each reseeded and then driven through up to MaxOps
\* randomized operations, all of them on record.
InitSeed ==
    /\ \E length \in 0..MaxLen : InitLen(length)
    /\ hist = HistOn

Seeded(e) == hist[e] # <<>>

\* Two seeds.
SomeSeeds == {SomeSeed, [k \in 1..BigLen |-> BigLen - k]}

\* s is to make its next recorded call.
TurnOfS == Seeded("s") /\ Seeded("c") /\ Len(hist["s"]) = Len(hist["c"]) /\ Len(hist["s"]) <= MaxOps

\* c is to make the call op(n), which s has made already.
TurnOfC(op, n) ==
    /\ Seeded("s") /\ Seeded("c") /\ Len(hist["c"]) < Len(hist["s"])
    /\ hist["s"][Len(hist["c"]) + 1].op = op
    /\ hist["s"][Len(hist["c"]) + 1].x = n

Turn(e, op, n) == IF e = "s" THEN TurnOfS ELSE TurnOfC(op, n)

NextSeed ==
    \/ \E x \in 0..(Pow2(MaxLen) - 1) : ~Exists("c") /\ SetOp("s", x)
    \/ ~Exists("c") /\ CopyOp
    \/ \E e \in {"s", "c"}, seed \in SomeSeeds : Exists("c") /\ ~Seeded(e) /\ SeedOp(e, seed)
    \/ \E e \in {"s", "c"}, n \in 0..MaxLen :
          n <= ent[e].length /\ Turn(e, "AdjustOnesCount", n) /\ AdjustCall(e, n)
    \/ AdjustStep
    \/ AdjustReturn
    \/ \E e \in {"s", "c"}, n \in 0..MaxLen :
          n <= ent[e].length /\ Turn(e, "Uint64n", n) /\ Uint64nOp(e, n)
    \/ \E e \in {"s", "c"}, n \in 0..MaxLen :
          n <= ent[e].length /\ Turn(e, "BigIntn", n) /\ BigIntnOp(e, n)

SpecSeed == InitSeed /\ [][NextSeed]_vars

\* ------------------------------------------------------------- SpecTrail
InitTrail ==
    /\ \E length \in 0..BigLen : InitLen(length)
    /\ hist = HistOn

\* One Spectrum, set, reseeded and then taken through up to MaxOps calls of
\* AdjustOnesCount within its length, the value before and after each call
\* on record.
NextTrail ==
    \/ \E x \in Candidates(BigLen) : ~Seeded("s") /\ SetOp("s", x)
    \/ \E seed \in Streams : ~Seeded("s") /\ SeedOp("s", seed)
    \/ \E n \in 0..BigLen :
          /\ n <= ent["s"].length
          /\ Seeded("s") /\ Len(hist["s"]) <= MaxOps
          /\ AdjustCall("s", n)
    \/ AdjustStep
    \/ AdjustReturn

SpecTrail == InitTrail /\ [][NextTrail]_vars

\* ------------------------------------------------------------- claims
InRange(e) == 0 <= Val(e) /\ Val(e) < Pow2(ent[e].length)

Setters == {"Set", "SetUint64", "SetString"}

\* C1: in every reachable state the value of every Spectrum is at least 0
\* and below 2^length.
C1_ValueInRange == \A e \in {"s", "c"} : Exists(e) => InRange(e)

\* C2: a setter that returns an error leaves the length and the value (the
\* whole Spectrum and the heap) as they were before the call.
C2_FailedSetterWritesNothing ==
    [][(ret'.op \in Setters /\ ret'.err # ErrNone) => (heap' = heap /\ ent' = ent)]_vars

\* A setter has failed on a Spectrum holding a value other than 0, once for
\* each kind of error.
C2_Witness ==
    /\ ret.op = "SetString"
    /\ ret.err = ErrConvert
    /\ Val("s") = 5

\* C3: for every v of at most length bits Set(v), SetUint64(v) and
\* SetString(text of v, base) return no error and BigInt() is v afterwards;
\* a Spectrum of length 0 refuses every v but 0.
C3_SettersAccept ==
    [][\A v \in Candidates(BigLen) :
          LET acc == ret'.err = ErrNone /\ BigInt(heap', ent'["s"]) = v
              rej == ret'.err # ErrNone /\ BigInt(heap', ent'["s"]) = 0
              want == IF BitLen(v) <= ent["s"].length THEN acc
                      ELSE (ent["s"].length = 0 => rej)
          IN  /\ (ret'.op = "Set" /\ SetOp("s", v)) => want
              /\ (ret'.op = "SetUint64" /\ v \in Uint64Values /\ SetUint64Op("s", v)) => want
              /\ \A base \in Bases :
                    (ret'.op = "SetString" /\ SetStringOp("s", BigText(v, base), base)) => want
      ]_vars

\* SetString has stored a value of exactly length bits.
C3_Witness ==
    /\ ret.op = "SetString"
    /\ ret.err = ErrNone
    /\ ent["s"].length = BigLen
    /\ BitLen(Val("s")) = BigLen

\* AdjustOnesCount(n) is running on a Spectrum of length at least 1 whose
\* value is in range, with n at most the length.
AdjustPre ==
    /\ pc.op = "AdjustOnesCount"
    /\ ent[pc.e].length >= 1
    /\ pc.n <= ent[pc.e].length
    /\ InRange(pc.e)

\* C4: such a call returns, the random source being fair, and when it
\* returns OnesCount() is n and the value is below 2^length.
C4_AdjustReaches ==
    /\ [][\A e \in {"s", "c"} :
            (AdjustPre /\ pc.e = e /\ AdjustReturn) =>
               (OnesCount(heap', ent'[e]) = pc.n /\ InRange(e)')]_vars
    /\ AdjustPre ~> (pc = Idle /\ ret.op = "AdjustOnesCount")

\* AdjustOnesCount has returned from a seeded Spectrum of the largest
\* length, leaving some bits set and some clear, after drawing.
C4_Witness ==
    /\ pc = Idle
    /\ ret.op = "AdjustOnesCount"
    /\ ent["s"].length = BigLen
    /\ OnesCount(heap, ent["s"]) = 1
    /\ ent["s"].rnd # Unseeded
    /\ ent["s"].rnd # SomeSeed
    /\ InRange("s")

\* C5: AdjustOnesCount(n) with n above the length returns before its loop,
\* with the value as it was.
C5_OutOfRangeRejected ==
    [][\A n \in Targets(BigLen) :
          (AdjustCall("s", n) /\ n > ent["s"].length) => (pc' = Idle /\ heap' = heap)]_vars

\* C6: Uint64() returns the value when it is a uint64 and an error when it
\* is not; Uint64n(n) returns an error or a number of n ones.
C6_Uint64Checked ==
    [][/\ Uint64Op("s") =>
            IF IsUint64(heap, ent["s"])
            THEN ret'.err = ErrNone /\ ret'.val = Val("s")
            ELSE ret'.err # ErrNone
       /\ \A n \in Targets(BigLen) :
            (Uint64nOp("s", n) /\ pc' = Idle /\ ret'.err = ErrNone) => NatOnes(ret'.val) = n
      ]_vars

\* The receiver of the call a step belongs to.
Receiver ==
    IF pc'.op = "AdjustOnesCount" THEN pc'.e
    ELSE IF pc.op = "AdjustOnesCount" THEN pc.e
    ELSE ret'.e

\* C7: Copy gives a Spectrum of the same length and value; afterwards no
\* call on the copy changes the value of the original, none on the original
\* changes the value of the copy, and Uint64n and BigIntn change neither.
C7_CopyIndependent ==
    [][/\ ret'.op = "Copy" =>
            /\ ent'["c"].length = ent["s"].length
            /\ Val("c")' = Val("s")
            /\ Val("s")' = Val("s")
       /\ (ret'.op # "Copy" /\ Exists("c") /\ Receiver = "c") => Val("s")' = Val("s")
       /\ (ret'.op # "Copy" /\ Exists("c") /\ Receiver = "s") => Val("c")' = Val("c")
       /\ ret'.op \in {"Uint64n", "BigIntn"} =>
            \A e \in {"s", "c"} : Exists(e) => Val(e)' = Val(e)
      ]_vars

RECURSIVE RotSum(_, _, _, _)
\* The bits (i + k) mod length of v, for i below m, as bits i.
RotSum(v, length, k, m) ==
    IF m = 0 THEN 0
    ELSE RotSum(v, length, k, m - 1) + Bit(v, ((m - 1) + k) % length) * Pow2(m - 1)

\* v rotated right by k within length bits.
RotRight(v, length, k) == RotSum(v, length, k % length, length)

\* C8: for a length of at least 1, a value in range and every n, Rsh and
\* Lsh give a Spectrum of the same length holding the value rotated by
\* n mod length to the right and to the left.
C8_Rotates ==
    [][\A n \in UintValues :
          LET length == ent["s"].length
              v == Val("s")
          IN  (length >= 1 /\ InRange("s")) =>
                 /\ RshOp(n) =>
                      /\ ent'["r"].length = length
                      /\ Val("r")' = RotRight(v, length, n % length)
                 /\ LshOp(n) =>
                      /\ ent'["r"].length = length
                      /\ Val("r")' = RotRight(v, length, length - (n % length))
      ]_vars

\* C9: Merge of two Spectrums with values in range returns no error and a
\* Spectrum of the sum of the lengths, whose low bits are the value of the
\* second and whose high bits are the value of the first; both are left as
\* they were.
C9_MergeConcatenates ==
    [][(MergeOp /\ InRange("s") /\ InRange("c")) =>
          /\ ret'.err = ErrNone
          /\ ent'["r"].length = ent["s"].length + ent["c"].length
          /\ Val("r")' = (Val("s") * Pow2(ent["c"].length)) + Val("c")
          /\ Val("r")' % Pow2(ent["c"].length) = Val("c")
          /\ Val("r")' \div Pow2(ent["c"].length) = Val("s")
          /\ ent'["s"] = ent["s"] /\ Val("s")' = Val("s")
          /\ ent'["c"] = ent["c"] /\ Val("c")' = Val("c")
      ]_vars

\* s and c were reseeded with the same seed when they had the same length
\* and value.
SameStart == Seeded("s") /\ Seeded("c") /\ hist["s"][1] = hist["c"][1]

\* The calls made on both since.
Both == 2 .. (IF Len(hist["s"]) < Len(hist["c"]) THEN Len(hist["s"]) ELSE Len(hist["c"]))

\* C10 as claimed: after the same seed and the same calls, the values agree
\* at every step, and so do the numbers the calls return.
C10_SameValuesAndReturns ==
    SameStart =>
       \A k \in Both :
          (hist["s"][k].op = hist["c"][k].op /\ hist["s"][k].x = hist["c"][k].x) =>
             /\ hist["s"][k].v = hist["c"][k].v
             /\ hist["s"][k].val = hist["c"][k].val

\* C10 as amended: after the same seed and the same calls, the values of
\* the two Spectrums agree at every step.
C10_SameValues ==
    SameStart =>
       \A k \in Both :
          (hist["s"][k].op = hist["c"][k].op /\ hist["s"][k].x = hist["c"][k].x) =>
             hist["s"][k].v = hist["c"][k].v

\* Both have made MaxOps calls after the same seed, the first of them an
\* AdjustOnesCount that changed the value.
C10_Witness ==
    /\ SameStart
    /\ Len(hist["s"]) = MaxOps + 1
    /\ Len(hist["c"]) = MaxOps + 1
    /\ hist["s"][2].op = "AdjustOnesCount"
    /\ hist["s"][2].v # hist["s"][1].v
    /\ hist["s"][3].op = "AdjustOnesCount"
    /\ hist["s"][3].v # hist["s"][2].v

RECURSIVE Pow(_, _)
Pow(base, k) == IF k <= 0 THEN 1 ELSE base * Pow(base, k - 1)

\* The w digits of v in the base, most significant first.
FixedDigits(v, base, w) ==
    IF w <= 0 THEN <<>>
    ELSE [k \in 1..w |-> Digits[((v \div Pow(base, w - k)) % base) + 1]]

\* ceil(length / 4)
HexWidth(length) == (length + 3) \div 4

\* C11: for every length from 0 on and every value in range,
\* Bit() is "0b" and exactly length binary digits and Hex() is "0x" and
\* exactly ceil(length / 4) hexadecimal digits, the digits of the value
\* after zeros.
C11_FixedWidth ==
    [][InRange("s") =>
          /\ (ret'.op = "Bit" /\ BitOp("s")) =>
                ret'.txt = <<"0", "b">> \o FixedDigits(Val("s"), 2, ent["s"].length)
          /\ (ret'.op = "Hex" /\ HexOp("s")) =>
                ret'.txt = <<"0", "x">> \o FixedDigits(Val("s"), 16, HexWidth(ent["s"].length))
      ]_vars

\* The bits of a below the length that are 1 are 1 in b.
OnesKept(a, b, length) == \A i \in 0..(length - 1) : Bit(a, i) = 1 => Bit(b, i) = 1

\* C12: AdjustOnesCount(n) with n at most the length, called on a value in
\* range, only sets bits when OnesCount() was below n (every 1 is still 1),
\* only clears bits when it was above n (every 0 is still 0), and leaves
\* the value as it was when OnesCount() was n already.
C12_OneDirection ==
    \A k \in 2..Len(hist["s"]) :
       LET before == hist["s"][k - 1].v
           after == hist["s"][k].v
           n == hist["s"][k].x
           length == ent["s"].length
       IN  (hist["s"][k].op = "AdjustOnesCount" /\ 0 <= before /\ before < Pow2(length)) =>
              /\ NatOnes(before) < n => OnesKept(before, after, length)
              /\ NatOnes(before) > n => OnesKept(after, before, length)
              /\ NatOnes(before) = n => after = before

====
